---- MODULE Spec2Model ----
(***************************************************************************)
(* The update propagation engine of fritzbox-cloudflare-dyndns:            *)
(* pkg/updater/cloudflare.go (CloudflareUpdater) and its producers.        *)
(*                                                                         *)
(* Producers call OnNewIp, which sends on the buffered channel In; one     *)
(* worker goroutine (spawnWorker) receives, drops duplicates against       *)
(* lastIpv4/lastIpv6 and reconciles every matching Action against the      *)
(* provider with the calls ListDNSRecords, CreateDNSRecord and             *)
(* UpdateDNSRecord.  An action of the model runs one goroutine from one    *)
(* blocking point (channel operation, provider call) to the next.          *)
(***************************************************************************)
EXTENDS Integers, Sequences, FiniteSets, TLC

\* ------------------------------------------------------------- bounds
\* Submissions the producers make in a scenario with the full address set.
MaxSubmits == 4
\* Submissions the producers make in a burst scenario (fills the channel).
BurstSubmits == 13
\* Concurrent producer goroutines calling OnNewIp.
NumProducers == 2
\* Worker goroutine slots (NewCloudflareUpdater starts exactly one).
MaxWorkers == 2
\* Poll cycles the poll goroutine runs (the first poll and the ticks after it).
MaxCycles == 3

\* ------------------------------------------------- program constants
\* make(chan *net.IP, 10)
QueueCap == 10
\* TTL of a created record
CreateTTL == 120

Producers == 1..NumProducers
Workers == 1..MaxWorkers

\* ------------------------------------------------------------- net.IP
\* A net.IP is a byte slice: len is its length, mapped says that a 16-byte
\* slice carries the IPv4-in-IPv6 prefix ::ffff:0:0/96, n numbers the address
\* within its family.
IP4(n) == [len |-> 4, mapped |-> FALSE, n |-> n]
IP4in6(n) == [len |-> 16, mapped |-> TRUE, n |-> n]
IP6(n) == [len |-> 16, mapped |-> FALSE, n |-> n]
\* the nil slice (what To4 returns for an address that is no IPv4 address)
NilIP == [len |-> 0, mapped |-> FALSE, n |-> 0]
\* the nil *net.IP of an unset lastIpv4 / lastIpv6 field
NullPtr == [len |-> -1, mapped |-> FALSE, n |-> 0]

\* net.IP.To4: the 4-byte form of an IPv4 address, nil otherwise
To4(ip) ==
  IF ip.len = 4 THEN ip
  ELSE IF ip.len = 16 /\ ip.mapped THEN IP4(ip.n)
  ELSE NilIP

\* net.IP.Equal: same bytes, or the 4-byte and the 16-byte form of one IPv4
\* address
Equal(a, b) ==
  IF a.len = b.len THEN a = b
  ELSE IF a.len = 4 /\ b.len = 16 THEN b.mapped /\ a.n = b.n
  ELSE IF a.len = 16 /\ b.len = 4 THEN a.mapped /\ a.n = b.n
  ELSE FALSE

V4Text == <<"203.0.113.5", "203.0.113.9">>
V6Text == <<"2001:db8:1:2::1", "2001:db8:1:2::2", "2001:db8:1:2::">>

\* net.IP.String: "<nil>" for an empty slice, dotted decimal for an IPv4
\* address in either form, the IPv6 text otherwise
String(ip) ==
  IF ip.len = 0 THEN "<nil>"
  ELSE IF To4(ip) # NilIP THEN V4Text[ip.n]
  ELSE V6Text[ip.n]

\* ------------------------------------------------------ configuration
N1 == "home.example.com"
N2 == "nas.example.org"
Names == {N1, N2}

\* publicsuffix.EffectiveTLDPlusOne
EffectiveTLDPlusOne(name) ==
  IF name = N1 THEN "example.com" ELSE "example.org"

\* The zone tables the provider may answer ZoneIDByName from: a domain that is
\* missing makes the lookup fail.
ZoneTables ==
  { [d \in {"example.com", "example.org"} |-> IF d = "example.com" THEN "zone-com" ELSE "zone-org"],
    [d \in {"example.com"} |-> "zone-com"] }

\* UpdaterOptions.ipv4Zones / ipv6Zones as configured
Configs ==
  { [ipv4Zones |-> <<N1>>, ipv6Zones |-> <<N1>>],
    [ipv4Zones |-> <<N1, N1>>, ipv6Zones |-> <<>>],
    [ipv4Zones |-> <<N1, N2>>, ipv6Zones |-> <<N2>>],
    [ipv4Zones |-> <<>>, ipv6Zones |-> <<N1>>] }

\* Records the provider may hold before the engine starts.
RecordPool ==
  { [id |-> 1, rtype |-> "A", name |-> N1, zone |-> "zone-com",
     content |-> "203.0.113.5", ttl |-> 300, proxied |-> TRUE],
    [id |-> 2, rtype |-> "A", name |-> N1, zone |-> "zone-com",
     content |-> "198.51.100.7", ttl |-> 1, proxied |-> FALSE],
    [id |-> 3, rtype |-> "AAAA", name |-> N1, zone |-> "zone-com",
     content |-> "2001:db8:1:2::1", ttl |-> 600, proxied |-> FALSE] }

\* Addresses the producers submit.
AllAddrs == {IP4(1), IP4in6(1), IP4(2), IP6(1)}
BurstAddrs == {IP4(1)}

\* -------------------------------------------------------------- state
VARIABLES
  phase,      \* "boot" | "running" | "failed" (constructor error) | "exited" (os.Exit)
  options,    \* UpdaterOptions.ipv4Zones, ipv6Zones
  actions,    \* CloudflareUpdater.actions
  isInit,     \* CloudflareUpdater.isInit
  last,       \* UpdaterOptions.lastIpv4 (last[4]) and lastIpv6 (last[6])
  queue,      \* buffer of the channel In
  sendq,      \* senders blocked on the full channel, in arrival order
  prod,       \* each producer: "idle" | "blocked" (inside OnNewIp)
  wk,         \* each worker goroutine's locals
  provider,   \* the provider's DNS records
  inputs,     \* addresses the producers draw from
  budget,     \* submissions the producers still make
  nEnq,       \* sends started on In so far
  nDeq,       \* receives from In so far
  recent,     \* per family, the address of the latest notification dequeued before wk.cur
  done,       \* reconciliations of one Action completed so far
  nCreate,    \* create calls issued so far, per (record type, name)
  provider0,  \* the provider's records when the engine started
  nErr,       \* provider calls that answered with an error so far
  lookups,    \* the record names init has resolved, in the order of its loop
  poll,       \* the poll goroutine of startPollServer: its locals and the router it asks
  comb        \* one construction of an IPv6 address from a prefix and the host suffix

vars == <<phase, options, actions, isInit, last, queue, sendq, prod, wk,
          provider, inputs, budget, nEnq, nDeq, recent, done, nCreate, provider0,
          nErr, lookups, poll, comb>>

\* the sender identity of the poll goroutine on the channel In
PollId == 0
\* the goroutines that send on In
Senders == Producers \cup {PollId}

\* no poll goroutine (FRITZBOX_ENDPOINT_INTERVAL unset: polling disabled)
NoPoll == [pc |-> "off"]
\* no construction under way
NoComb == [pc |-> "off"]

\* (record type, record name) pairs of the provider
RecordKeys == {"A", "AAAA"} \X Names

NoItem == [ip |-> NullPtr, seq |-> 0]
\* A provider call: its parameters, the index aidx of the Action it is made for
\* and, for a list call that was answered, the records res it returned.
NoCall == [op |-> "none", rtype |-> "", name |-> "", zone |-> "", id |-> 0,
           content |-> "", ttl |-> 0, proxied |-> FALSE, aidx |-> 0, res |-> <<>>]

\* a goroutine slot no worker runs in
NoWorker == [pc |-> "none", cur |-> NoItem, i |-> 0, records |-> <<>>, j |-> 0,
             call |-> NoCall, log |-> <<>>]

Init ==
  /\ phase = "boot"
  /\ options \in Configs
  /\ actions = <<>>
  /\ isInit = FALSE
  /\ last = [f \in {4, 6} |-> NullPtr]
  /\ queue = <<>>
  /\ sendq = <<>>
  /\ prod = [p \in Senders |-> "idle"]
  /\ wk = [w \in Workers |-> NoWorker]
  /\ \/ /\ inputs = AllAddrs
        /\ budget = MaxSubmits
        /\ provider \in SUBSET RecordPool
     \/ /\ inputs = BurstAddrs
        /\ budget = BurstSubmits
        /\ provider = {}
        /\ options.ipv6Zones = <<>>
  /\ nEnq = 0
  /\ nDeq = 0
  /\ recent = [f \in {4, 6} |-> NullPtr]
  /\ done = {}
  /\ nCreate = [k \in RecordKeys |-> 0]
  /\ provider0 = provider
  /\ nErr = 0
  /\ lookups = <<>>
  /\ poll = NoPoll
  /\ comb = NoComb

\* --------------------------------------------------------- constructor
\* init, first half: the unique record names of both lists
ZoneNames(opts) ==
  {opts.ipv4Zones[k] : k \in 1..Len(opts.ipv4Zones)}
    \cup {opts.ipv6Zones[k] : k \in 1..Len(opts.ipv6Zones)}

\* init as a constructor that ignores the errors of the two lookups
ResolvesAlways(opts, tbl) == TRUE

\* init: whether EffectiveTLDPlusOne and ZoneIDByName succeed for every name
Resolves(opts, tbl) ==
  \A nm \in ZoneNames(opts) : EffectiveTLDPlusOne(nm) \in DOMAIN tbl

\* init: zoneIdMap once every name is resolved
ZoneIdMap(opts, tbl) ==
  [nm \in ZoneNames(opts) |->
     IF EffectiveTLDPlusOne(nm) \in DOMAIN tbl THEN tbl[EffectiveTLDPlusOne(nm)] ELSE ""]

\* the orders in which the range over the map zoneIdMap can visit its keys
MapOrders(S) ==
  {ord \in [1..Cardinality(S) -> S] : \A a, b \in 1..Cardinality(S) : ord[a] = ord[b] => a = b}

\* init: the lookups made by the range loop, which returns at the first error
\* ("" is the id of a name whose domain or zone lookup failed)
LookupsOf(ord, tbl) ==
  LET bad == {k \in 1..Len(ord) : EffectiveTLDPlusOne(ord[k]) \notin DOMAIN tbl}
      n   == IF bad = {} THEN Len(ord) ELSE CHOOSE k \in bad : \A m \in bad : k <= m
  IN [k \in 1..n |->
        [name |-> ord[k],
         id   |-> IF k \in bad THEN "" ELSE tbl[EffectiveTLDPlusOne(ord[k])]]]

\* init, second half: one Action per entry of ipv4Zones, then of ipv6Zones
BuildActions(opts, zoneIdMap) ==
  [k \in 1..Len(opts.ipv4Zones) |->
     [DnsRecord |-> opts.ipv4Zones[k], CfZoneId |-> zoneIdMap[opts.ipv4Zones[k]],
      IpVersion |-> 4]]
  \o
  [k \in 1..Len(opts.ipv6Zones) |->
     [DnsRecord |-> opts.ipv6Zones[k], CfZoneId |-> zoneIdMap[opts.ipv6Zones[k]],
      IpVersion |-> 6]]

\* a worker goroutine blocked on the receive from In
FreshWorker == [NoWorker EXCEPT !.pc = "recv"]

\* StartWorker as a start of one goroutine per slot
StartWorkerAll(ws, inited) ==
  IF ~inited THEN ws ELSE [w \in Workers |-> FreshWorker]

\* StartWorker: nothing before init, else one more goroutine running spawnWorker
StartWorker(ws, inited) ==
  IF ~inited \/ \A w \in Workers : ws[w].pc # "none" THEN ws
  ELSE LET w == CHOOSE x \in Workers :
                  ws[x].pc = "none" /\ \A y \in Workers : ws[y].pc = "none" => x <= y
       IN [ws EXCEPT ![w] = FreshWorker]

\* NewCloudflareUpdater: init, then StartWorker; an init error returns before
\* any Action is built and before the worker is started
NewCloudflareUpdater(tbl) ==
  /\ phase = "boot"
  /\ \E ord \in MapOrders(ZoneNames(options)) : lookups' = LookupsOf(ord, tbl)
  /\ IF Resolves(options, tbl)
     THEN /\ actions' = actions \o BuildActions(options, ZoneIdMap(options, tbl))
          /\ isInit' = TRUE
          /\ wk' = StartWorker(wk, TRUE)
          /\ phase' = "running"
     ELSE /\ phase' = "failed"
          /\ UNCHANGED <<actions, isInit, wk>>
  /\ UNCHANGED <<options, last, queue, sendq, prod, provider, inputs, budget,
                 nEnq, nDeq, recent, done, nCreate, provider0,
                 nErr, poll, comb>>

\* ------------------------------------------------------------ OnNewIp
\* ChanSend as a send that gives up on a full channel (select with default)
ChanSendDropping(q, sq, p, item) ==
  IF Len(q) < QueueCap
  THEN [queue |-> Append(q, item), sendq |-> sq, parked |-> FALSE]
  ELSE [queue |-> q, sendq |-> sq, parked |-> FALSE]

\* A send on the channel In (capacity QueueCap): into the buffer when it has
\* room, else the sender parks on the channel's send queue until a receive
\* frees a slot.
ChanSend(q, sq, p, item) ==
  IF Len(q) < QueueCap
  THEN [queue |-> Append(q, item), sendq |-> sq, parked |-> FALSE]
  ELSE [queue |-> q, sendq |-> Append(sq, [p |-> p, item |-> item]), parked |-> TRUE]

\* OnNewIp: updater.In <- ip
OnNewIp(p, ip) ==
  /\ phase = "running"
  /\ prod[p] = "idle"
  /\ budget > 0
  /\ budget' = budget - 1
  /\ nEnq' = nEnq + 1
  /\ LET c == ChanSend(queue, sendq, p, [ip |-> ip, seq |-> nEnq + 1])
     IN /\ queue' = c.queue
        /\ sendq' = c.sendq
        /\ prod' = [prod EXCEPT ![p] = IF c.parked THEN "blocked" ELSE "idle"]
  /\ UNCHANGED <<phase, options, actions, isInit, last, wk, provider, inputs,
                 nDeq, recent, done, nCreate, provider0,
                 nErr, lookups, poll, comb>>

\* ----------------------------------------------------------- provider
\* ListDNSRecords: the records of the zone with the type and the name asked
\* for, by ascending identifier
ProviderList(prov, call) ==
  LET S == {r \in prov : r.zone = call.zone /\ r.rtype = call.rtype /\ r.name = call.name}
  IN [k \in 1..Cardinality(S) |->
        CHOOSE r \in S : Cardinality({q \in S : q.id < r.id}) = k - 1]

\* CreateDNSRecord: one more record, under an identifier not in use
ProviderCreate(prov, call) ==
  LET ids == {r.id : r \in prov}
      fresh == IF ids = {} THEN 1 ELSE (CHOOSE m \in ids : \A x \in ids : x <= m) + 1
  IN prov \cup {[id |-> fresh, rtype |-> call.rtype, name |-> call.name,
                 zone |-> call.zone, content |-> call.content, ttl |-> call.ttl,
                 proxied |-> call.proxied]}

\* UpdateDNSRecord: the record with the identifier takes the submitted content,
\* TTL and proxied flag
ProviderUpdate(prov, call) ==
  {IF r.id = call.id /\ r.zone = call.zone
   THEN [r EXCEPT !.content = call.content, !.ttl = call.ttl, !.proxied = call.proxied]
   ELSE r : r \in prov}

\* -------------------------------------------------------- spawnWorker
\* IsDuplicate as a comparison of the stored slice with the new one, byte for byte
IsDuplicateBytes(lst, ip) ==
  IF To4(ip) = NilIP THEN lst[6] = ip ELSE lst[4] = ip

\* the duplicate check on a received address against lastIpv4 / lastIpv6
IsDuplicate(lst, ip) ==
  IF To4(ip) = NilIP
  THEN lst[6] # NullPtr /\ Equal(lst[6], ip)
  ELSE lst[4] # NullPtr /\ Equal(lst[4], ip)

\* SkipsAction without the skip of IPv6 Actions on an IPv4 address
SkipsActionV6Only(ip, a) ==
  To4(ip) = NilIP /\ a.IpVersion # 6

\* the two skips at the head of the action loop
SkipsAction(ip, a) ==
  \/ To4(ip) = NilIP /\ a.IpVersion # 6
  \/ To4(ip) # NilIP /\ a.IpVersion = 6

\* "Decide record type on ip version"
RecordType(ip) == IF To4(ip) = NilIP THEN "AAAA" ELSE "A"

\* the family of a notification: 4 for an IPv4 address in either form
FamilyOf(ip) == IF ip.len = 4 \/ (ip.len = 16 /\ ip.mapped) THEN 4 ELSE 6

\* LastSlot with the two branches of the final assignment exchanged
LastSlotSwapped(ip) == IF To4(ip) = NilIP THEN 4 ELSE 6

\* the slot of lastIpv4 / lastIpv6 the final assignment writes
LastSlot(ip) == IF To4(ip) = NilIP THEN 6 ELSE 4

\* the first Action at index k or later that the loop does not skip, 0 if none
NextAction(acts, ip, k) ==
  LET S == {x \in k..Len(acts) : ~SkipsAction(ip, acts[x])}
  IN IF S = {} THEN 0 ELSE CHOOSE x \in S : \A y \in S : x <= y

\* NextRecord without the skip of records that already hold the content
NextRecordAll(recs, ip, j) ==
  IF j <= Len(recs) THEN j ELSE 0

\* NextRecord that looks at the first record of the list only
NextRecordFirstOnly(recs, ip, j) ==
  IF j = 1 /\ Len(recs) >= 1 /\ recs[1].content # String(ip) THEN 1 ELSE 0

\* the first record at index j or later whose content is not ip.String(), 0 if none
NextRecord(recs, ip, j) ==
  LET S == {x \in j..Len(recs) : recs[x].content # String(ip)}
  IN IF S = {} THEN 0 ELSE CHOOSE x \in S : \A y \in S : x <= y

\* the parameters of u.api.ListDNSRecords
ListCall(ip, a, k) ==
  [NoCall EXCEPT !.op = "list", !.rtype = RecordType(ip), !.name = a.DnsRecord,
                 !.zone = a.CfZoneId, !.aidx = k]

\* CreateCall without the TTL and the proxied flag (the provider's defaults apply)
CreateCallDefaults(ip, a, k) ==
  [NoCall EXCEPT !.op = "create", !.rtype = RecordType(ip), !.name = a.DnsRecord,
                 !.zone = a.CfZoneId, !.content = String(ip), !.proxied = TRUE,
                 !.ttl = 1, !.aidx = k]

\* the parameters of u.api.CreateDNSRecord
CreateCall(ip, a, k) ==
  [NoCall EXCEPT !.op = "create", !.rtype = RecordType(ip), !.name = a.DnsRecord,
                 !.zone = a.CfZoneId, !.content = String(ip), !.proxied = FALSE,
                 !.ttl = CreateTTL, !.aidx = k]

\* UpdateCall that submits the changed content only
UpdateCallContentOnly(ip, a, k, record) ==
  [NoCall EXCEPT !.op = "update", !.rtype = RecordType(ip), !.name = a.DnsRecord,
                 !.zone = a.CfZoneId, !.id = record.id, !.content = String(ip),
                 !.aidx = k]

\* the parameters of u.api.UpdateDNSRecord
UpdateCall(ip, a, k, record) ==
  [NoCall EXCEPT !.op = "update", !.rtype = RecordType(ip), !.name = a.DnsRecord,
                 !.zone = a.CfZoneId, !.id = record.id, !.content = String(ip),
                 !.ttl = record.ttl, !.proxied = record.proxied, !.aidx = k]

\* a worker that issues call c and waits for its answer
Issue(st, pc, c) == [st EXCEPT !.pc = pc, !.call = c, !.log = Append(@, c)]

\* The action loop from index k on: the worker either issues the list call of
\* the next Action it does not skip, or leaves the loop (fin: the assignment to
\* lastIpv4 / lastIpv6 follows) and waits on the channel again.
AdvanceActions(acts, st, k) ==
  LET x == NextAction(acts, st.cur.ip, k)
  IN IF x = 0
     THEN [w |-> [st EXCEPT !.pc = "recv", !.i = 0, !.records = <<>>, !.j = 0,
                            !.call = NoCall],
           fin |-> TRUE]
     ELSE [w |-> Issue([st EXCEPT !.i = x, !.records = <<>>, !.j = 0], "list",
                       ListCall(st.cur.ip, acts[x], x)),
           fin |-> FALSE]

\* The record loop from index j on: the worker either issues the update of the
\* next record whose content differs, or ends this Action (cancel()) and goes
\* on with the action loop.
AdvanceRecords(acts, st, j) ==
  LET x == NextRecord(st.records, st.cur.ip, j)
  IN IF x = 0
     THEN AdvanceActions(acts, st, st.i + 1)
     ELSE [w |-> Issue([st EXCEPT !.j = x], "update",
                       UpdateCall(st.cur.ip, acts[st.i], st.i, st.records[x])),
           fin |-> FALSE]

\* AfterList that creates a record unless two or more were found
AfterListCreateBelowTwo(acts, st, recs) ==
  LET st1 == [st EXCEPT !.records = recs, !.log[Len(st.log)].res = recs]
  IN IF Len(recs) <= 1
     THEN [w |-> Issue(st1, "create", CreateCall(st.cur.ip, acts[st.i], st.i)),
           fin |-> FALSE]
     ELSE AdvanceRecords(acts, st1, 1)

\* AfterList without the create
AfterListNoCreate(acts, st, recs) ==
  AdvanceRecords(acts, [st EXCEPT !.records = recs, !.log[Len(st.log)].res = recs], 1)

\* After the list call answered with recs: create when there is none, then
\* the record loop.
AfterList(acts, st, recs) ==
  LET st1 == [st EXCEPT !.records = recs, !.log[Len(st.log)].res = recs]
  IN IF Len(recs) = 0
     THEN [w |-> Issue(st1, "create", CreateCall(st.cur.ip, acts[st.i], st.i)),
           fin |-> FALSE]
     ELSE AdvanceRecords(acts, st1, 1)

\* AfterReceive with the assignment to lastIpv4 / lastIpv6 made for a
\* duplicate as well
AfterReceiveRemembersAll(acts, lst, st, item) ==
  LET st1 == [st EXCEPT !.cur = item, !.log = <<>>]
  IN IF IsDuplicate(lst, item.ip)
     THEN [w |-> st1, fin |-> TRUE]
     ELSE AdvanceActions(acts, st1, 1)

\* AfterReceive with a return in place of the continue of the duplicate
\* check: the worker goroutine ends on the first duplicate
AfterReceiveReturns(acts, lst, st, item) ==
  LET st1 == [st EXCEPT !.cur = item, !.log = <<>>]
  IN IF IsDuplicate(lst, item.ip)
     THEN [w |-> [st1 EXCEPT !.pc = "none"], fin |-> FALSE]
     ELSE AdvanceActions(acts, st1, 1)

\* After ip := <-u.In: continue on a duplicate, else the action loop.
AfterReceive(acts, lst, st, item) ==
  LET st1 == [st EXCEPT !.cur = item, !.log = <<>>]
  IN IF IsDuplicate(lst, item.ip)
     THEN [w |-> st1, fin |-> FALSE]
     ELSE AdvanceActions(acts, st1, 1)

\* the two variables a worker step leaves as r says: its locals, and the
\* lastIpv4 / lastIpv6 slot once the action loop is over
Lands(w, r) ==
  /\ wk' = [wk EXCEPT ![w] = r.w]
  /\ last' = IF r.fin THEN [last EXCEPT ![LastSlot(r.w.cur.ip)] = r.w.cur.ip] ELSE last

\* the reconciliations of one Action that a step from st to r.w completed, recs
\* being the records its list call returned
Completed(st, r, recs) ==
  IF r.w.pc = "recv" \/ r.w.i # st.i
  THEN {[rtype |-> st.call.rtype, name |-> st.call.name, before |-> Len(recs)]}
  ELSE {}

\* ChanRecv as a receive of the newest buffered value
ChanRecvNewest(q, sq) ==
  [item |-> q[Len(q)],
   queue |-> IF sq = <<>> THEN SubSeq(q, 1, Len(q) - 1)
             ELSE Append(SubSeq(q, 1, Len(q) - 1), Head(sq).item),
   sendq |-> IF sq = <<>> THEN sq ELSE Tail(sq),
   woken |-> IF sq = <<>> THEN {} ELSE {Head(sq).p}]

\* ip := <-u.In on the channel: the oldest buffered value; the longest-parked
\* sender, if any, puts its value into the freed slot and resumes
ChanRecv(q, sq) ==
  [item |-> Head(q),
   queue |-> IF sq = <<>> THEN Tail(q) ELSE Append(Tail(q), Head(sq).item),
   sendq |-> IF sq = <<>> THEN sq ELSE Tail(sq),
   woken |-> IF sq = <<>> THEN {} ELSE {Head(sq).p}]

\* case ip := <-u.In, the duplicate check, and the action loop up to its first
\* provider call
Receive(w) ==
  /\ phase = "running"
  /\ wk[w].pc = "recv"
  /\ queue # <<>>
  /\ \E c \in {ChanRecv(queue, sendq)} :
     \E r \in {AfterReceive(actions, last, wk[w], c.item)} :
        /\ queue' = c.queue
        /\ sendq' = c.sendq
        /\ prod' = [p \in Senders |-> IF p \in c.woken THEN "idle" ELSE prod[p]]
        /\ Lands(w, r)
  /\ nDeq' = nDeq + 1
  /\ recent' = IF wk[w].cur = NoItem THEN recent
               ELSE [recent EXCEPT ![FamilyOf(wk[w].cur.ip)] = wk[w].cur.ip]
  /\ UNCHANGED <<phase, options, actions, isInit, provider, inputs, budget, nEnq,
                 done, nCreate, provider0,
                 nErr, lookups, poll, comb>>

\* ListDNSRecords answers without error
ListReturn(w) ==
  /\ phase = "running"
  /\ wk[w].pc = "list"
  /\ \E recs \in {ProviderList(provider, wk[w].call)} :
     \E r \in {AfterList(actions, wk[w], recs)} :
        /\ Lands(w, r)
        /\ done' = done \cup Completed(wk[w], r, recs)
        /\ nCreate' = IF r.w.pc = "create"
                      THEN [nCreate EXCEPT ![<<r.w.call.rtype, r.w.call.name>>] = @ + 1]
                      ELSE nCreate
  /\ UNCHANGED <<phase, options, actions, isInit, queue, sendq, prod, provider,
                 inputs, budget, nEnq, nDeq, recent, provider0,
                 nErr, lookups, poll, comb>>

\* CreateDNSRecord answers without error
CreateReturn(w) ==
  /\ phase = "running"
  /\ wk[w].pc = "create"
  /\ provider' = ProviderCreate(provider, wk[w].call)
  /\ \E r \in {AdvanceRecords(actions, wk[w], 1)} :
        /\ Lands(w, r)
        /\ done' = done \cup Completed(wk[w], r, wk[w].records)
  /\ UNCHANGED <<phase, options, actions, isInit, queue, sendq, prod, inputs,
                 budget, nEnq, nDeq, recent, nCreate, provider0,
                 nErr, lookups, poll, comb>>

\* UpdateDNSRecord answers without error
UpdateReturn(w) ==
  /\ phase = "running"
  /\ wk[w].pc = "update"
  /\ provider' = ProviderUpdate(provider, wk[w].call)
  /\ \E r \in {AdvanceRecords(actions, wk[w], wk[w].j + 1)} :
        /\ Lands(w, r)
        /\ done' = done \cup Completed(wk[w], r, wk[w].records)
  /\ UNCHANGED <<phase, options, actions, isInit, queue, sendq, prod, inputs,
                 budget, nEnq, nDeq, recent, nCreate, provider0,
                 nErr, lookups, poll, comb>>

\* CallFails with the error logged and the loop's continue taken: the process
\* lives on and the worker goes to the next Action
CallFailsContinues(w) ==
  /\ phase = "running"
  /\ wk[w].pc \in {"list", "create", "update"}
  /\ nErr' = nErr + 1
  /\ Lands(w, AdvanceActions(actions, wk[w], wk[w].i + 1))
  /\ UNCHANGED <<phase, options, actions, isInit, queue, sendq, prod, provider,
                 inputs, budget, nEnq, nDeq, recent, done, nCreate, provider0,
                 lookups, poll, comb>>

\* A provider call answers with an error (a timeout of the one-minute context
\* included): the error is logged and os.Exit(1) ends the process.
CallFails(w) ==
  /\ phase = "running"
  /\ wk[w].pc \in {"list", "create", "update"}
  /\ phase' = "exited"
  /\ nErr' = nErr + 1
  /\ UNCHANGED <<options, actions, isInit, last, queue, sendq, prod, wk, provider,
                 inputs, budget, nEnq, nDeq, recent, done, nCreate, provider0,
                 lookups, poll, comb>>

Next ==
  \/ \E tbl \in ZoneTables : NewCloudflareUpdater(tbl)
  \/ \E p \in Producers : \E ip \in inputs : OnNewIp(p, ip)
  \/ \E w \in Workers : Receive(w)
  \/ \E w \in Workers : ListReturn(w)
  \/ \E w \in Workers : CreateReturn(w)
  \/ \E w \in Workers : UpdateReturn(w)
  \/ \E w \in Workers : CallFails(w)

Spec == Init /\ [][Next]_vars

\* ------------------------------------------------- prefix construction
\* net.IPv6len
IPv6len == 16

\* bit j (0 = most significant) of the byte b
BitOf(b, j) == (b \div 2^(7 - j)) % 2

\* the byte with the bits f[0] (most significant) .. f[7]
ByteOf(f) ==
  128 * f[0] + 64 * f[1] + 32 * f[2] + 16 * f[3] + 8 * f[4] + 4 * f[5] + 2 * f[6] + f[7]

\* a & b on bytes
BitAnd(a, b) == ByteOf([j \in 0..7 |-> BitOf(a, j) * BitOf(b, j)])

\* the mask of byte i as one that also keeps the last bit of the network part
MaskInclusive(i, maskLen) ==
  ByteOf([j \in 0..7 |-> IF i * 8 + j >= maskLen - 1 THEN 1 ELSE 0])

\* the inner loop over j: bit j of the mask of byte i is set when i*8+j >= maskLen
Mask(i, maskLen) ==
  ByteOf([j \in 0..7 |-> IF i * 8 + j >= maskLen THEN 1 ELSE 0])

\* the 16 bytes of the address with the eight 16-bit groups g
Addr(g) ==
  [k \in 1..IPv6len |-> IF k % 2 = 1 THEN g[(k + 1) \div 2] \div 256 ELSE g[k \div 2] % 256]

\* constructedIp := make(net.IP, net.IPv6len); copy(constructedIp, prefix.IP);
\* maskLen, _ := prefix.Mask.Size(); i := 0
StartComb(ip, maskLen, localIp) ==
  [pc |-> "loop", ip |-> ip, maskLen |-> maskLen, localIp |-> localIp,
   constructedIp |-> ip, i |-> 0]

\* one iteration of the outer loop as b += lb, without the mask
CombStepUnmasked(c) ==
  LET b  == c.constructedIp[c.i + 1]
      lb == c.localIp[c.i + 1]
  IN [c EXCEPT !.constructedIp[c.i + 1] = (b + lb) % 256,
               !.i = c.i + 1,
               !.pc = IF c.i + 1 < IPv6len THEN "loop" ELSE "done"]

\* one iteration of the outer loop: b += lb & mask on a byte (modulo 256)
CombStep(c) ==
  LET b  == c.constructedIp[c.i + 1]
      lb == c.localIp[c.i + 1]
  IN [c EXCEPT !.constructedIp[c.i + 1] = (b + BitAnd(lb, Mask(c.i, c.maskLen))) % 256,
               !.i = c.i + 1,
               !.pc = IF c.i + 1 < IPv6len THEN "loop" ELSE "done"]

RECURSIVE CombRun(_)
\* the loop run to its end
CombRun(c) == IF c.pc = "loop" THEN CombRun(CombStep(c)) ELSE c

\* the address the poll closure constructs from a prefix and the host suffix
ConstructIp(ip, maskLen, localIp) == CombRun(StartComb(ip, maskLen, localIp)).constructedIp

\* the loop of the poll closure, one byte at a time
CombineByte ==
  /\ comb.pc = "loop"
  /\ comb' = CombStep(comb)
  /\ UNCHANGED <<phase, options, actions, isInit, last, queue, sendq, prod, wk,
                 provider, inputs, budget, nEnq, nDeq, recent, done, nCreate,
                 provider0, nErr, lookups, poll>>

\* prefixes a router can report: a /64 network, the same with a host bit set,
\* all ones and all zeros
PrefixIps ==
  {Addr(<<8193, 3512, 1, 2, 0, 0, 0, 0>>), Addr(<<8193, 3512, 1, 2, 0, 0, 0, 1>>),
   Addr(<<65535, 65535, 65535, 65535, 65535, 65535, 65535, 65535>>),
   Addr(<<0, 0, 0, 0, 0, 0, 0, 0>>)}

\* values of DEVICE_LOCAL_ADDRESS_IPV6, the host suffix: ::1, ::2, a link-local
\* address with bits in the network part, all ones
LocalIps ==
  {Addr(<<0, 0, 0, 0, 0, 0, 0, 1>>), Addr(<<0, 0, 0, 0, 0, 0, 0, 2>>),
   Addr(<<65152, 0, 0, 0, 529, 8959, 65075, 17493>>),
   Addr(<<65535, 65535, 65535, 65535, 65535, 65535, 65535, 65535>>)}

\* the prefix lengths of an IPv6 mask
MaskLens == 0..(8 * IPv6len)

\* a construction about to start, everything else at rest
InitCombine ==
  /\ comb \in {StartComb(ip, l, lip) : ip \in PrefixIps, l \in MaskLens, lip \in LocalIps}
  /\ poll = NoPoll
  /\ phase = "boot"
  /\ options = [ipv4Zones |-> <<>>, ipv6Zones |-> <<N1>>]
  /\ actions = <<>>
  /\ isInit = FALSE
  /\ last = [f \in {4, 6} |-> NullPtr]
  /\ queue = <<>>
  /\ sendq = <<>>
  /\ prod = [p \in Senders |-> "idle"]
  /\ wk = [w \in Workers |-> NoWorker]
  /\ inputs = {}
  /\ budget = 0
  /\ provider = {}
  /\ nEnq = 0
  /\ nDeq = 0
  /\ recent = [f \in {4, 6} |-> NullPtr]
  /\ done = {}
  /\ nCreate = [k \in RecordKeys |-> 0]
  /\ provider0 = provider
  /\ nErr = 0
  /\ lookups = <<>>

NextCombine == CombineByte

SpecCombine == InitCombine /\ [][NextCombine]_vars

\* ---------------------------------------------------- startPollServer
\* the bytes of the IPv6 addresses numbered 1, 2, 3 (the texts of V6Text)
V6Bytes ==
  <<Addr(<<8193, 3512, 1, 2, 0, 0, 0, 1>>), Addr(<<8193, 3512, 1, 2, 0, 0, 0, 2>>),
    Addr(<<8193, 3512, 1, 2, 0, 0, 0, 0>>)>>

\* the net.IP with the 16 bytes b
IPOfBytes(b) == IP6(CHOOSE n \in 1..Len(V6Bytes) : V6Bytes[n] = b)

\* useIpv4 / useIpv6: CLOUDFLARE_ZONES_IPV4 / _IPV6 is not empty
UseIpv4(opts) == opts.ipv4Zones # <<>>
UseIpv6(opts) == opts.ipv6Zones # <<>>

\* The poll goroutine before its first poll(): lastV4 and lastV6 are the empty
\* net.IP{}; localIp is <<>> for the nil *localIp, else the 16 bytes of the
\* host suffix; wan4, wan6 and prefix are what the router answers.  f4, f6
\* (outcome of this cycle's fetch), s4, s6 (OnNewIp called in this cycle),
\* first (notifications sent in the first cycle) and erred (a fetch failed)
\* record the run.
StartPoll(localIp, wan4, wan6, prefix) ==
  [pc |-> "v4", cycle |-> 1, localIp |-> localIp, wan4 |-> wan4, wan6 |-> wan6,
   prefix |-> prefix, lastV4 |-> NilIP, lastV6 |-> NilIP,
   f4 |-> "none", f6 |-> "none", s4 |-> FALSE, s6 |-> FALSE, first |-> 0,
   erred |-> FALSE]

\* FetchV4 with a return from poll() on the error
FetchV4ErrReturns(pl, use, ok) ==
  IF ~use
  THEN [pl |-> [pl EXCEPT !.pc = "v6", !.f4 = "skip"], send |-> NullPtr]
  ELSE IF ~ok
  THEN [pl |-> [pl EXCEPT !.pc = "tick", !.f4 = "err", !.erred = TRUE], send |-> NullPtr]
  ELSE [pl |-> [pl EXCEPT !.pc = "v6", !.f4 = "ok", !.s4 = TRUE,
                          !.lastV4 = IF Equal(@, pl.wan4) THEN @ ELSE pl.wan4],
        send |-> pl.wan4]

\* poll(), IPv4 part: GetWanIpv4 answers (ok) or fails; send is the address
\* handed to OnNewIp, NullPtr when OnNewIp is not called
FetchV4(pl, use, ok) ==
  IF ~use
  THEN [pl |-> [pl EXCEPT !.pc = "v6", !.f4 = "skip"], send |-> NullPtr]
  ELSE IF ~ok
  THEN [pl |-> [pl EXCEPT !.pc = "v6", !.f4 = "err", !.erred = TRUE], send |-> NullPtr]
  ELSE [pl |-> [pl EXCEPT !.pc = "v6", !.f4 = "ok", !.s4 = TRUE,
                          !.lastV4 = IF Equal(@, pl.wan4) THEN @ ELSE pl.wan4],
        send |-> pl.wan4]

\* poll(), IPv6 part: GetwanIpv6 when *localIp is nil (OnNewIp only for an
\* address unlike lastV6), else GetIpv6Prefix and the construction (OnNewIp
\* on every success)
FetchV6(pl, use, ok) ==
  IF ~use
  THEN [pl |-> [pl EXCEPT !.pc = "tick", !.f6 = "skip"], send |-> NullPtr]
  ELSE IF ~ok
  THEN [pl |-> [pl EXCEPT !.pc = "tick", !.f6 = "err", !.erred = TRUE], send |-> NullPtr]
  ELSE IF pl.localIp = <<>>
  THEN IF ~Equal(pl.lastV6, pl.wan6)
       THEN [pl |-> [pl EXCEPT !.pc = "tick", !.f6 = "ok", !.s6 = TRUE, !.lastV6 = pl.wan6],
             send |-> pl.wan6]
       ELSE [pl |-> [pl EXCEPT !.pc = "tick", !.f6 = "ok"], send |-> NullPtr]
  ELSE LET pip == IPOfBytes(pl.prefix.ip)
       IN [pl |-> [pl EXCEPT !.pc = "tick", !.f6 = "ok", !.s6 = TRUE,
                             !.lastV6 = IF Equal(@, pip) THEN @ ELSE pip],
           send |-> IPOfBytes(ConstructIp(pl.prefix.ip, pl.prefix.maskLen, pl.localIp))]

\* what a step of poll() that leaves r does to the channel: updater.OnNewIp
\* of the address r.send, if any
PollLands(r) ==
  /\ poll' = [r.pl EXCEPT !.first = IF r.send # NullPtr /\ poll.cycle = 1
                                    THEN nEnq + 1 ELSE @]
  /\ IF r.send = NullPtr
     THEN UNCHANGED <<queue, sendq, prod, nEnq>>
     ELSE LET c == ChanSend(queue, sendq, PollId, [ip |-> r.send, seq |-> nEnq + 1])
          IN /\ queue' = c.queue
             /\ sendq' = c.sendq
             /\ prod' = [prod EXCEPT ![PollId] = IF c.parked THEN "blocked" ELSE "idle"]
             /\ nEnq' = nEnq + 1
  /\ UNCHANGED <<phase, options, actions, isInit, last, wk, provider, inputs,
                 budget, nDeq, recent, done, nCreate, provider0, nErr, lookups,
                 comb>>

\* poll(): the IPv4 fetch and its notification
PollV4(ok) ==
  /\ phase = "running"
  /\ poll.pc = "v4"
  /\ prod[PollId] = "idle"
  /\ PollLands(FetchV4(poll, UseIpv4(options), ok))

\* poll(): the IPv6 fetch (address or prefix) and its notification
PollV6(ok) ==
  /\ phase = "running"
  /\ poll.pc = "v6"
  /\ prod[PollId] = "idle"
  /\ PollLands(FetchV6(poll, UseIpv6(options), ok))

\* case <-ticker.C: the next poll()
Tick ==
  /\ phase = "running"
  /\ poll.pc = "tick"
  /\ prod[PollId] = "idle"
  /\ poll.cycle < MaxCycles
  /\ poll' = [poll EXCEPT !.pc = "v4", !.cycle = @ + 1, !.f4 = "none", !.f6 = "none",
                          !.s4 = FALSE, !.s6 = FALSE]
  /\ UNCHANGED <<phase, options, actions, isInit, last, queue, sendq, prod, wk,
                 provider, inputs, budget, nEnq, nDeq, recent, done, nCreate,
                 provider0, nErr, lookups, comb>>

\* the router's answers: the WAN IPv4 address in either form, the WAN IPv6
\* address, the delegated prefix
RouterV4 == {IP4(1), IP4in6(1)}
RouterV6 == {IP6(2)}
RouterPrefix == {[ip |-> V6Bytes[3], maskLen |-> 64]}
\* DEVICE_LOCAL_ADDRESS_IPV6: unset, or the host suffix ::1
PollLocalIps == {<<>>, Addr(<<0, 0, 0, 0, 0, 0, 0, 1>>)}

\* the engine about to be constructed, with the poll goroutine as the only
\* producer
InitPoll ==
  /\ poll \in {StartPoll(lip, a, b, px) :
                 lip \in PollLocalIps, a \in RouterV4, b \in RouterV6, px \in RouterPrefix}
  /\ comb = NoComb
  /\ phase = "boot"
  /\ options \in Configs
  /\ actions = <<>>
  /\ isInit = FALSE
  /\ last = [f \in {4, 6} |-> NullPtr]
  /\ queue = <<>>
  /\ sendq = <<>>
  /\ prod = [p \in Senders |-> "idle"]
  /\ wk = [w \in Workers |-> NoWorker]
  /\ inputs = {}
  /\ budget = 0
  /\ provider \in SUBSET RecordPool
  /\ nEnq = 0
  /\ nDeq = 0
  /\ recent = [f \in {4, 6} |-> NullPtr]
  /\ done = {}
  /\ nCreate = [k \in RecordKeys |-> 0]
  /\ provider0 = provider
  /\ nErr = 0
  /\ lookups = <<>>

NextPoll ==
  \/ \E tbl \in ZoneTables : NewCloudflareUpdater(tbl)
  \/ \E ok \in BOOLEAN : PollV4(ok)
  \/ \E ok \in BOOLEAN : PollV6(ok)
  \/ Tick
  \/ \E w \in Workers : Receive(w)
  \/ \E w \in Workers : ListReturn(w)
  \/ \E w \in Workers : CreateReturn(w)
  \/ \E w \in Workers : UpdateReturn(w)
  \/ \E w \in Workers : CallFails(w)

SpecPoll == InitPoll /\ [][NextPoll]_vars

\* ---------------------------------------------------------- scheduling
\* a step of a worker goroutine whose provider call, if any, answered
\* without error
WorkerStep ==
  \E w \in Workers : Receive(w) \/ ListReturn(w) \/ CreateReturn(w) \/ UpdateReturn(w)

\* the engine with provider calls that never fail
NextLive ==
  \/ \E tbl \in ZoneTables : NewCloudflareUpdater(tbl)
  \/ \E p \in Producers : \E ip \in inputs : OnNewIp(p, ip)
  \/ \E w \in Workers : Receive(w)
  \/ \E w \in Workers : ListReturn(w)
  \/ \E w \in Workers : CreateReturn(w)
  \/ \E w \in Workers : UpdateReturn(w)

\* Addresses the producers submit in the runs checked for progress.
LiveAddrs == {IP4(1), IP6(1)}

\* the initial states of Init with no provider record or with all of
\* RecordPool, and producers that submit one address of each family
InitLive ==
  /\ phase = "boot"
  /\ options \in Configs
  /\ actions = <<>>
  /\ isInit = FALSE
  /\ last = [f \in {4, 6} |-> NullPtr]
  /\ queue = <<>>
  /\ sendq = <<>>
  /\ prod = [p \in Senders |-> "idle"]
  /\ wk = [w \in Workers |-> NoWorker]
  /\ \/ /\ inputs = LiveAddrs
        /\ budget = MaxSubmits
        /\ provider \in {{}, RecordPool}
     \/ /\ inputs = BurstAddrs
        /\ budget = BurstSubmits
        /\ provider = {}
        /\ options.ipv6Zones = <<>>
  /\ nEnq = 0
  /\ nDeq = 0
  /\ recent = [f \in {4, 6} |-> NullPtr]
  /\ done = {}
  /\ nCreate = [k \in RecordKeys |-> 0]
  /\ provider0 = provider
  /\ nErr = 0
  /\ lookups = <<>>
  /\ poll = NoPoll
  /\ comb = NoComb

\* The Go scheduler runs a runnable goroutine eventually, and every provider
\* call is assumed to answer: the worker's next step is taken when it stays
\* possible.
SpecLive == InitLive /\ [][NextLive]_vars /\ WF_vars(WorkerStep)

\* ============================================================ claims
\* a worker with a provider call in flight
Busy(w) == wk[w].pc \in {"list", "create", "update"}

\* two addresses that denote the same address of the same family
SameAddress(a, b) ==
  /\ a # NullPtr /\ b # NullPtr
  /\ FamilyOf(a) = FamilyOf(b) /\ a.n = b.n /\ (a.len = 0) = (b.len = 0)

\* indices of the calls in the log of worker w with operation op for Action k
CallsFor(w, op, k) ==
  {x \in 1..Len(wk[w].log) : wk[w].log[x].op = op /\ wk[w].log[x].aidx = k}

\* C1 (dedup): a notification whose address is value-equal to the address of the
\* latest earlier notification of its family triggers no provider call, and each
\* LastAddress slot holds (by value) the address of the latest notification of
\* its family that the worker finished with, whatever the other family received.
C1_Dedup ==
  \A w \in Workers : wk[w].cur # NoItem =>
    LET ip == wk[w].cur.ip
        f == FamilyOf(ip)
    IN /\ SameAddress(recent[f], ip) => wk[w].log = <<>>
       /\ \A g \in {4, 6} :
            LET e == IF wk[w].pc = "recv" /\ g = f THEN ip ELSE recent[g]
            IN (last[g] = NullPtr /\ e = NullPtr) \/ SameAddress(last[g], e)

\* C1 witness: 203.0.113.5 as 4 bytes, an IPv6 address, then 203.0.113.5 as 16
\* bytes: the third notification is dropped without a call.
C1_Witness ==
  \E w \in Workers :
    /\ wk[w].pc = "recv" /\ wk[w].cur = [ip |-> IP4in6(1), seq |-> 3]
    /\ recent[4] = IP4(1) /\ recent[6] = IP6(1) /\ last[4] = IP4(1)
    /\ wk[w].log = <<>>
    /\ \E k \in 1..Len(actions) : actions[k].IpVersion = 4

\* C2 (family routing): every provider call of a notification is made for an
\* Action of the notification's family, with that Action's name and zone, and
\* with record type "A" for IPv4 and "AAAA" for IPv6.
C2_FamilyRouting ==
  \A w \in Workers : \A x \in 1..Len(wk[w].log) :
    LET c == wk[w].log[x]
        f == FamilyOf(wk[w].cur.ip)
    IN /\ c.aidx \in 1..Len(actions)
       /\ actions[c.aidx].IpVersion = f
       /\ c.name = actions[c.aidx].DnsRecord
       /\ c.zone = actions[c.aidx].CfZoneId
       /\ c.rtype = IF f = 4 THEN "A" ELSE "AAAA"

\* C2 witness: an IPv6 notification reconciled to its end in a configuration
\* that also holds IPv4 Actions, and an IPv4 one before it.
C2_Witness ==
  \E w \in Workers :
    /\ wk[w].pc = "recv" /\ wk[w].log # <<>>
    /\ FamilyOf(wk[w].cur.ip) = 6 /\ recent[4] # NullPtr
    /\ \E k \in 1..Len(actions) : actions[k].IpVersion = 4
    /\ \E k \in 1..Len(actions) : actions[k].IpVersion = 6

\* C3 (ordering): the worker takes the notifications in the order of their
\* sends, the buffer and the parked senders hold the following ones in order,
\* and a notification that differs from the previous one of its family gets
\* one list call per Action of its family: none is merged or skipped.
C3_Ordering ==
  /\ \A k \in 1..Len(queue) : queue[k].seq = nDeq + k
  /\ \A k \in 1..Len(sendq) : sendq[k].item.seq = nDeq + Len(queue) + k
  /\ \A w \in Workers : wk[w].cur # NoItem =>
       /\ wk[w].cur.seq = nDeq
       /\ (wk[w].pc = "recv" /\ ~SameAddress(recent[FamilyOf(wk[w].cur.ip)], wk[w].cur.ip))
            => \A k \in 1..Len(actions) :
                 Cardinality(CallsFor(w, "list", k))
                   = IF actions[k].IpVersion = FamilyOf(wk[w].cur.ip) THEN 1 ELSE 0

\* C3 witness: a, b, a of one family; the third is reconciled like the first.
C3_Witness ==
  \E w \in Workers :
    /\ wk[w].pc = "recv" /\ wk[w].cur = [ip |-> IP4(1), seq |-> 3]
    /\ recent[4] = IP4(2) /\ recent[6] = NullPtr
    /\ Len(wk[w].log) >= 2 /\ last[4] = IP4(1)

\* C4 (backpressure): the buffer never holds more than QueueCap notifications,
\* a sender is parked only while the buffer is full, every notification sent
\* is with the worker, in the buffer or with its parked sender (none is
\* dropped), and a parked sender returns only when a receive has moved its
\* notification into the buffer.
C4_Backpressure ==
  /\ [](/\ Len(queue) <= QueueCap
        /\ (sendq # <<>> => Len(queue) = QueueCap)
        /\ nEnq = nDeq + Len(queue) + Len(sendq)
        /\ \A p \in Producers :
             Cardinality({k \in 1..Len(sendq) : sendq[k].p = p})
               = IF prod[p] = "blocked" THEN 1 ELSE 0)
  /\ [][\A p \in Producers : (prod[p] = "blocked" /\ prod'[p] = "idle") =>
          /\ nDeq' = nDeq + 1
          /\ \E k \in 1..Len(sendq) :
               /\ sendq[k].p = p
               /\ queue'[Len(queue')] = sendq[k].item]_vars

\* C4 witness: the worker waits for the provider, the buffer holds QueueCap
\* notifications, and the next sender is parked.
C4_Witness ==
  /\ Len(queue) = QueueCap /\ Len(sendq) = 1
  /\ \E w \in Workers : Busy(w)
  /\ \E p \in Producers : prod[p] = "blocked"

\* C5 (serialization): once constructed the updater runs exactly one worker,
\* and at most one provider call is in flight at any time.
C5_Serialization ==
  /\ Cardinality({w \in Workers : wk[w].pc # "none"})
       = IF phase \in {"running", "exited"} THEN 1 ELSE 0
  /\ Cardinality({w \in Workers : Busy(w)}) <= 1

\* C5 witness: a call in flight while the buffer is full and every producer is
\* parked in OnNewIp.
C5_Witness ==
  /\ phase = "running"
  /\ \E w \in Workers : Busy(w)
  /\ Len(queue) = QueueCap
  /\ \A p \in Producers : prod[p] = "blocked"

\* the list call at index x of the log of worker w has been answered
Answered(w, x) == ~(x = Len(wk[w].log) /\ wk[w].pc = "list")

\* C6 (create path): a list call answered with no record is followed at once by
\* one create call for the same Action with the notified address as content,
\* TTL 120 and proxied false, the pass has no other create and no update for
\* that Action, and no create is issued otherwise.
C6_CreatePath ==
  \A w \in Workers : \A x \in 1..Len(wk[w].log) :
    LET c == wk[w].log[x]
    IN /\ (c.op = "list" /\ Answered(w, x) /\ Len(c.res) = 0) =>
            /\ x < Len(wk[w].log)
            /\ wk[w].log[x + 1] =
                 [op |-> "create", rtype |-> c.rtype, name |-> c.name, zone |-> c.zone,
                  id |-> 0, content |-> String(wk[w].cur.ip), ttl |-> 120,
                  proxied |-> FALSE, aidx |-> c.aidx, res |-> <<>>]
            /\ CallsFor(w, "create", c.aidx) = {x + 1}
            /\ CallsFor(w, "update", c.aidx) = {}
       /\ c.op = "create" =>
            /\ x > 1
            /\ wk[w].log[x - 1].op = "list" /\ wk[w].log[x - 1].aidx = c.aidx
            /\ wk[w].log[x - 1].res = <<>>

\* C6 witness: no "A" record named home.example.com, a notification of
\* 203.0.113.5: one list, one create, and the provider holds the record.
C6_Witness ==
  \E w \in Workers :
    /\ wk[w].pc = "recv" /\ wk[w].cur.ip = IP4(1) /\ provider0 = {}
    /\ Len(wk[w].log) = 2 /\ wk[w].log[2].op = "create"
    /\ provider = {[id |-> 1, rtype |-> "A", name |-> N1, zone |-> "zone-com",
                    content |-> "203.0.113.5", ttl |-> 120, proxied |-> FALSE]}

\* C7 (field preservation): every update call carries the identifier, the TTL
\* and the proxied flag of a record that the list call of the same Action in the
\* same pass returned, and the notified address as content, which that record
\* did not hold; in the provider a record's TTL, proxied flag, type and name
\* never change.
C7_FieldPreservation ==
  /\ \A w \in Workers : \A x \in 1..Len(wk[w].log) :
       LET c == wk[w].log[x]
       IN c.op = "update" =>
            \E y \in 1..(x - 1) :
              /\ wk[w].log[y].op = "list" /\ wk[w].log[y].aidx = c.aidx
              /\ \E m \in 1..Len(wk[w].log[y].res) :
                   LET r == wk[w].log[y].res[m]
                   IN /\ c.id = r.id /\ c.ttl = r.ttl /\ c.proxied = r.proxied
                      /\ c.content = String(wk[w].cur.ip)
                      /\ r.content # c.content
  /\ \A r \in provider : \A r0 \in provider0 :
       r.id = r0.id =>
         /\ r.ttl = r0.ttl /\ r.proxied = r0.proxied
         /\ r.rtype = r0.rtype /\ r.name = r0.name /\ r.zone = r0.zone

\* C7 witness: record 1 (203.0.113.5, TTL 300, proxied) and a notification of
\* 203.0.113.9: one update of record 1 with TTL 300 and proxied true.
C7_Witness ==
  \E w \in Workers :
    /\ wk[w].pc = "recv" /\ wk[w].cur.ip = IP4(2)
    /\ \E x \in 1..Len(wk[w].log) :
         /\ wk[w].log[x].op = "update" /\ wk[w].log[x].id = 1
         /\ wk[w].log[x].content = "203.0.113.9"
         /\ wk[w].log[x].ttl = 300 /\ wk[w].log[x].proxied
    /\ \E r \in provider :
         r.id = 1 /\ r.content = "203.0.113.9" /\ r.ttl = 300 /\ r.proxied

\* identifiers of the records of res whose content is not the address ip
Differing(res, ip) ==
  {res[m].id : m \in {m \in 1..Len(res) : res[m].content # String(ip)}}

\* C8 (no-op path): an update call is issued only for a returned record whose
\* content differs from the notified address, once the Action's pass is over
\* exactly one for each such record, and when every returned record holds the
\* content the pass has no create and no update for the Action.
C8_NoOp ==
  \A w \in Workers : \A y \in 1..Len(wk[w].log) :
    LET c == wk[w].log[y]
        k == c.aidx
        upd == CallsFor(w, "update", k)
        diff == Differing(c.res, wk[w].cur.ip)
    IN (c.op = "list" /\ Answered(w, y)) =>
         /\ {wk[w].log[x].id : x \in upd} \subseteq diff
         /\ Cardinality(upd) <= Cardinality(diff)
         /\ wk[w].i # k => Cardinality(upd) = Cardinality(diff)
         /\ (Len(c.res) > 0 /\ diff = {}) =>
              upd = {} /\ CallsFor(w, "create", k) = {}

\* C8 witness: the one record already holds the notified address (here sent in
\* its 16-byte form): the pass is the list call alone.
C8_Witness ==
  \E w \in Workers :
    /\ wk[w].pc = "recv" /\ wk[w].cur.ip = IP4in6(1)
    /\ Len(wk[w].log) = 1 /\ Len(wk[w].log[1].res) = 1
    /\ wk[w].log[1].res[1].content = "203.0.113.5"
    /\ provider = provider0

\* records the provider holds for a (record type, name) pair
RecordsOf(prov, rtype, name) == {r \in prov : r.rtype = rtype /\ r.name = name}

\* C9 (idempotent create): for a (type, name) the provider held no record of at
\* the start, the engine issues at most one create call over all notifications,
\* and exactly one once a reconciliation for it has completed.
C9_IdempotentCreate ==
  \A key \in RecordKeys :
    RecordsOf(provider0, key[1], key[2]) = {} =>
      /\ nCreate[key] <= 1
      /\ (\E d \in done : d.rtype = key[1] /\ d.name = key[2]) => nCreate[key] = 1

\* C9 witness: home.example.com listed twice for IPv4, no record at the start,
\* and the notifications a, b, a all reconciled: one create.
C9_Witness ==
  \E w \in Workers :
    /\ options.ipv4Zones = <<N1, N1>> /\ provider0 = {}
    /\ wk[w].pc = "recv" /\ wk[w].cur = [ip |-> IP4(1), seq |-> 3]
    /\ recent[4] = IP4(2) /\ wk[w].log # <<>>
    /\ nCreate[<<"A", N1>>] = 1

\* C10 as stated: a pass issues at most one create for an Action, and after a
\* completed reconciliation the provider holds exactly one record for the
\* Action's (type, name), however many it held before.
C10_Original ==
  /\ \A w \in Workers : \A k \in 1..Len(actions) :
       Cardinality(CallsFor(w, "create", k)) <= 1
  /\ \A d \in done : Cardinality(RecordsOf(provider, d.rtype, d.name)) = 1

\* C10 (record count, amended): a pass issues at most one create for an Action,
\* and after a completed reconciliation that found n records the provider holds
\* one record for the (type, name) when n = 0 and still n records when n >= 1:
\* duplicates are updated, never removed.
C10_RecordCount ==
  /\ \A w \in Workers : \A k \in 1..Len(actions) :
       Cardinality(CallsFor(w, "create", k)) <= 1
  /\ \A d \in done :
       Cardinality(RecordsOf(provider, d.rtype, d.name))
         = IF d.before = 0 THEN 1 ELSE d.before

\* C10 witness: two "A" records for home.example.com before the pass, both
\* holding the notified address after it.
C10_Witness ==
  /\ \E d \in done : d.before = 2
  /\ Cardinality(RecordsOf(provider, "A", N1)) = 2
  /\ \A r \in RecordsOf(provider, "A", N1) : r.content = "203.0.113.9"

\* C11 (fail-fast): once a provider call has answered with an error the process
\* has exited; the failing step issues no call, writes no LastAddress slot,
\* changes no record and receives nothing, and after the exit nothing happens:
\* the remaining records, Actions and queued notifications get no call.
C11_FailFast ==
  /\ [](nErr > 0 => phase = "exited")
  /\ [][nErr' # nErr =>
          /\ phase' = "exited"
          /\ last' = last /\ provider' = provider /\ wk' = wk
          /\ nDeq' = nDeq /\ nCreate' = nCreate]_vars
  /\ [][phase = "exited" => UNCHANGED vars]_vars

\* C11 witness: the update of the first of two records fails while a second
\* Action and a queued notification are still to come; the slot stays unset.
C11_Witness ==
  /\ phase = "exited" /\ nErr = 1
  /\ queue # <<>>
  /\ last[4] = NullPtr
  /\ \E w \in Workers :
       /\ wk[w].pc = "update" /\ wk[w].j = 1 /\ Len(wk[w].records) = 2
       /\ wk[w].i = 1 /\ Len(actions) = 2 /\ actions[2].IpVersion = 4

\* the configured (record name, family) pairs
ConfiguredPairs ==
  {<<options.ipv4Zones[k], 4>> : k \in 1..Len(options.ipv4Zones)}
    \cup {<<options.ipv6Zones[k], 6>> : k \in 1..Len(options.ipv6Zones)}

\* the zone identifier the provider keeps for the registrable domain of a name
ZoneOfName(nm) ==
  IF EffectiveTLDPlusOne(nm) = "example.com" THEN "zone-com" ELSE "zone-org"

\* C12 (action uniqueness) as stated: after init the Action list holds exactly
\* one Action for every configured (record name, family) pair and none for any
\* other pair, each with the zone identifier resolved for its name, and the
\* list never changes afterwards.
C12_ActionUniqueness ==
  /\ [](isInit =>
         /\ \A pr \in ConfiguredPairs :
              Cardinality({k \in 1..Len(actions) :
                             actions[k].DnsRecord = pr[1] /\ actions[k].IpVersion = pr[2]}) = 1
         /\ \A k \in 1..Len(actions) :
              /\ <<actions[k].DnsRecord, actions[k].IpVersion>> \in ConfiguredPairs
              /\ actions[k].CfZoneId = ZoneOfName(actions[k].DnsRecord))
  /\ [][isInit => actions' = actions]_vars

\* C13 (startup atomicity): a failed domain or zone lookup makes the
\* constructor fail, with no Action built, no worker started and nothing ever
\* enqueued or consumed; the engine starts exactly when every configured name
\* was resolved, each distinct name once, and a worker only ever runs with
\* every Action carrying the zone identifier resolved for its name.
C13_StartupAtomicity ==
  /\ \A a, b \in 1..Len(lookups) : lookups[a].name = lookups[b].name => a = b
  /\ phase # "boot" =>
       (phase = "failed" <=> \E k \in 1..Len(lookups) : lookups[k].id = "")
  /\ phase = "failed" =>
       /\ \A w \in Workers : wk[w].pc = "none"
       /\ ~isInit /\ actions = <<>>
       /\ queue = <<>> /\ sendq = <<>> /\ nEnq = 0 /\ nDeq = 0
       /\ provider = provider0
  /\ (\E w \in Workers : wk[w].pc # "none") =>
       /\ isInit
       /\ {lookups[k].name : k \in 1..Len(lookups)} = ZoneNames(options)
       /\ \A k \in 1..Len(actions) :
            /\ actions[k].CfZoneId # ""
            /\ \E m \in 1..Len(lookups) :
                 /\ lookups[m].name = actions[k].DnsRecord
                 /\ lookups[m].id = actions[k].CfZoneId

\* init returned the error of the second lookup after a first one succeeded,
\* for a name configured in both family lists
C13_Witness ==
  /\ phase = "failed"
  /\ Len(lookups) = 2 /\ lookups[1].id # "" /\ lookups[2].id = ""
  /\ \E a \in 1..Len(options.ipv4Zones) : \E b \in 1..Len(options.ipv6Zones) :
       options.ipv4Zones[a] = options.ipv6Zones[b]

\* bit pos (0 = most significant) of a 16-byte address
AddrBit(a, pos) == BitOf(a[pos \div 8 + 1], pos % 8)

\* a | b on bytes
BitOr(a, b) ==
  ByteOf([j \in 0..7 |-> IF BitOf(a, j) + BitOf(b, j) > 0 THEN 1 ELSE 0])

\* every bit of the network address at position >= maskLen is zero
WellFormed(ip, maskLen) ==
  \A pos \in 0..(8 * IPv6len - 1) : pos >= maskLen => AddrBit(ip, pos) = 0

\* the constructed address takes bit pos from the network below maskLen and
\* from the host suffix otherwise
BitSelected(c) ==
  \A pos \in 0..(8 * IPv6len - 1) :
    AddrBit(c.constructedIp, pos) =
      IF pos < c.maskLen THEN AddrBit(c.ip, pos) ELSE AddrBit(c.localIp, pos)

\* C14 (prefix combiner) as stated: for every network address, host suffix and
\* prefix length the constructed address is the bitwise selection, equal to the
\* suffix for length 0 and to the network for length 128.
C14_Original ==
  comb.pc = "done" =>
    /\ BitSelected(comb)
    /\ comb.maskLen = 0 => comb.constructedIp = comb.localIp
    /\ comb.maskLen = 8 * IPv6len => comb.constructedIp = comb.ip

\* C14 (prefix combiner), amended: for every network address whose bits at
\* positions >= L are zero, every host suffix and every L in 0..128 the
\* constructed address is the bitwise selection; for L = 0 (network all zero)
\* it is the suffix and for L = 128 (any network) it is the network.
C14_PrefixCombiner ==
  (comb.pc = "done" /\ WellFormed(comb.ip, comb.maskLen)) =>
    /\ BitSelected(comb)
    /\ comb.maskLen = 0 => comb.constructedIp = comb.localIp
    /\ comb.maskLen = 8 * IPv6len => comb.constructedIp = comb.ip

\* 2001:db8:1:2::/63 combined with a suffix that has bits on both sides of
\* the boundary: the network's 63 bits, then the suffix's bits
C14_Witness ==
  /\ comb.pc = "done"
  /\ comb.ip = Addr(<<8193, 3512, 1, 2, 0, 0, 0, 0>>) /\ comb.maskLen = 63
  /\ comb.localIp = Addr(<<65535, 65535, 65535, 65535, 65535, 65535, 65535, 65535>>)
  /\ comb.constructedIp = Addr(<<8193, 3512, 1, 3, 65535, 65535, 65535, 65535>>)

\* the sum the loop forms for byte k (1-based), before it is cut to a byte
ByteSum(c, k) == c.ip[k] + BitAnd(c.localIp[k], Mask(k - 1, c.maskLen))

\* the bitwise OR of the same two operands
ByteOr(c, k) == BitOr(c.ip[k], BitAnd(c.localIp[k], Mask(k - 1, c.maskLen)))

\* C16 (addition equals OR on well-formed prefixes): when every network bit at
\* position >= L is zero, each byte the loop has written is the sum of the
\* network byte and the masked suffix byte, that sum fits in 8 bits and equals
\* their bitwise OR; for a network with a bit set at a position >= L the byte
\* written (the sum modulo 256) can differ from the OR, as it does for
\* 2001:db8:1:2::1/64 and the suffix ::1 (last byte 2, OR 1).
C16_AddIsOr ==
  /\ WellFormed(comb.ip, comb.maskLen) =>
       \A k \in 1..comb.i :
         /\ ByteSum(comb, k) < 256
         /\ comb.constructedIp[k] = ByteSum(comb, k)
         /\ comb.constructedIp[k] = ByteOr(comb, k)
  /\ LET ip  == Addr(<<8193, 3512, 1, 2, 0, 0, 0, 1>>)
         lip == Addr(<<0, 0, 0, 0, 0, 0, 0, 1>>)
     IN /\ ip \in PrefixIps /\ lip \in LocalIps /\ 64 \in MaskLens
        /\ ~WellFormed(ip, 64)
        /\ ConstructIp(ip, 64, lip)[IPv6len] = 2
        /\ ByteOr(StartComb(ip, 64, lip), IPv6len) = 1

\* a well-formed /64 prefix and a suffix with bits in the network part: the
\* mask drops those bits and the sum is the OR, byte for byte
C16_Witness ==
  /\ comb.pc = "done"
  /\ comb.ip = Addr(<<8193, 3512, 1, 2, 0, 0, 0, 0>>) /\ comb.maskLen = 64
  /\ comb.localIp = Addr(<<65152, 0, 0, 0, 529, 8959, 65075, 17493>>)
  /\ comb.constructedIp = Addr(<<8193, 3512, 1, 2, 529, 8959, 65075, 17493>>)

\* a step in which a fetch of the poll goroutine failed
FetchFails ==
  \/ poll.pc = "v4" /\ poll'.pc # "v4" /\ poll'.f4 = "err"
  \/ poll.pc = "v6" /\ poll'.pc # "v6" /\ poll'.f6 = "err"

\* C15 (polling errors are isolated): a failed fetch makes no OnNewIp call for
\* its family in that cycle and changes nothing but the poll goroutine's own
\* position; at the end of every cycle each configured family was fetched and
\* each successful fetch was notified (in the plain IPv6 mode, when the
\* address is new) whatever happened to the other family; the poll goroutine
\* never ends and every tick starts a new cycle with the IPv4 fetch.
C15_PollIsolation ==
  /\ [](/\ poll.pc \in {"v4", "v6", "tick"}
        /\ poll.f4 = "err" => ~poll.s4
        /\ poll.f6 = "err" => ~poll.s6
        /\ poll.pc = "tick" =>
             /\ UseIpv4(options) => (poll.f4 \in {"ok", "err"} /\ (poll.f4 = "ok" => poll.s4))
             /\ UseIpv6(options) => poll.f6 \in {"ok", "err"}
             /\ (UseIpv6(options) /\ poll.localIp # <<>> /\ poll.f6 = "ok") => poll.s6)
  /\ [][FetchFails =>
          /\ queue' = queue /\ sendq' = sendq /\ nEnq' = nEnq /\ prod' = prod
          /\ phase' = phase /\ wk' = wk /\ last' = last /\ provider' = provider
          /\ poll'.lastV4 = poll.lastV4 /\ poll'.lastV6 = poll.lastV6
          /\ poll'.cycle = poll.cycle]_vars
  /\ [][(poll.pc = "tick" /\ poll' # poll) =>
          /\ poll'.pc = "v4" /\ poll'.cycle = poll.cycle + 1
          /\ poll'.f4 = "none" /\ poll'.f6 = "none"]_vars

\* after a first cycle in which both fetches failed, the second cycle polled
\* both families again: its IPv4 fetch failed and its IPv6 notification was
\* still sent
C15_Witness ==
  /\ poll.pc = "tick" /\ poll.cycle = 2 /\ poll.first = 0
  /\ UseIpv4(options) /\ UseIpv6(options)
  /\ poll.f4 = "err" /\ poll.f6 = "ok" /\ poll.s6 /\ nEnq = 1

\* C20 (steady-state polling is silent): with the poll goroutine as the only
\* producer and every fetch answered with the same address or prefix, a
\* notification sent after the first cycle is discarded by the worker with no
\* provider call (the worker is back at the receive with an empty call log),
\* and in the plain IPv6 mode the later cycles send no IPv6 notification.
C20_SteadyState ==
  ~poll.erred =>
    /\ \A w \in Workers :
         wk[w].cur.seq > poll.first => (wk[w].pc = "recv" /\ wk[w].log = <<>>)
    /\ (poll.cycle > 1 /\ poll.localIp = <<>>) => ~poll.s6

\* third cycle over in the prefix mode without a failed fetch: six
\* notifications sent and received, the two of the first cycle reconciled
C20_Witness ==
  /\ ~poll.erred /\ poll.pc = "tick" /\ poll.cycle = MaxCycles
  /\ poll.localIp # <<>> /\ poll.first = 2 /\ nEnq = 2 * MaxCycles /\ nDeq = nEnq
  /\ provider # provider0
  /\ \E w \in Workers : wk[w].pc = "recv" /\ wk[w].log = <<>>

\* a step in which worker w ends the action loop of the notification it holds
FinishesLoop(w) ==
  /\ wk'[w].pc = "recv"
  /\ \/ wk[w].pc \in {"list", "create", "update"}
     \/ wk[w].pc = "recv" /\ wk'[w].cur # wk[w].cur
          /\ ~IsDuplicate(last, wk'[w].cur.ip)

\* C18 (LastAddress frame): a slot is unset or holds an address of its own
\* family, and is unset as long as no notification of its family was
\* processed; a step changes the slot of family f only when the worker ends
\* the action loop of a non-duplicate notification of family f, and the slot
\* then holds that notification's address; a step that sends a notification,
\* discards a duplicate or processes the other family leaves it unchanged.
C18_LastFrame ==
  /\ [](\A f \in {4, 6} :
          /\ last[f] # NullPtr => FamilyOf(last[f]) = f
          /\ last[f] # NullPtr =>
               \/ recent[f] # NullPtr
               \/ \E w \in Workers : wk[w].cur # NoItem /\ FamilyOf(wk[w].cur.ip) = f)
  /\ [][\A f \in {4, 6} :
          /\ last'[f] # last[f] =>
               \E w \in Workers :
                 /\ FinishesLoop(w)
                 /\ FamilyOf(wk'[w].cur.ip) = f
                 /\ last'[f] = wk'[w].cur.ip
          /\ nEnq' # nEnq => last'[f] = last[f]
          /\ \A w \in Workers :
               (wk[w].pc = "recv" /\ wk'[w].cur # wk[w].cur
                  /\ IsDuplicate(last, wk'[w].cur.ip)) => last' = last
          /\ \A w \in Workers :
               (FinishesLoop(w) /\ FamilyOf(wk'[w].cur.ip) # f) => last'[f] = last[f]]_vars

\* both slots written, then the 16-byte form of the IPv4 address discarded as
\* a duplicate: lastIpv4 still holds the 4-byte form
C18_Witness ==
  /\ last[4] = IP4(1) /\ last[6] = IP6(1)
  /\ \E w \in Workers : wk[w].pc = "recv" /\ wk[w].cur.ip = IP4in6(1) /\ wk[w].cur.seq = 3

\* the records of prov that the Actions of the family of address ip cover
Covered(prov, acts, ip) ==
  {r \in prov : /\ r.rtype = RecordType(ip)
                /\ \E k \in 1..Len(acts) :
                     /\ acts[k].IpVersion = FamilyOf(ip)
                     /\ acts[k].DnsRecord = r.name}

\* C19 (convergence after a pass): when the worker ends the action loop of a
\* non-duplicate notification with address a, every provider record of the
\* record type of a whose name belongs to an Action of a's family has the
\* content a.String(); and every step that changes the provider's records is
\* a step of a worker's pass, which leaves every record of the other record
\* type as it was.
C19_Convergence ==
  /\ [][\A w \in Workers :
          FinishesLoop(w) =>
            \A r \in Covered(provider', actions, wk'[w].cur.ip) :
              r.content = String(wk'[w].cur.ip)]_vars
  /\ [][provider' # provider =>
          \E w \in Workers :
            /\ Busy(w)
            /\ {r \in provider' : r.rtype # RecordType(wk[w].cur.ip)}
                 = {r \in provider : r.rtype # RecordType(wk[w].cur.ip)}]_vars

\* a pass for 203.0.113.9 is over: both A records of home.example.com that
\* held other contents now hold it, the AAAA record is as it was
C19_Witness ==
  /\ provider0 = RecordPool
  /\ \E w \in Workers :
       /\ wk[w].pc = "recv" /\ wk[w].cur.ip = IP4(2) /\ wk[w].log # <<>>
  /\ last[4] = IP4(2)
  /\ \A r \in provider : r.rtype = "A" => r.content = "203.0.113.9"
  /\ {r \in provider : r.rtype = "AAAA"} = {r \in provider0 : r.rtype = "AAAA"}
  /\ Cardinality(provider) = 3

\* notification number n was dequeued and the worker is done with it
Processed(n) ==
  \E w \in Workers :
    \/ wk[w].cur.seq > n
    \/ wk[w].cur.seq = n /\ wk[w].pc = "recv"

\* C17 (progress): with a fairly scheduled worker and provider calls that
\* answer without error, a producer blocked in OnNewIp on the full channel is
\* eventually unblocked (every OnNewIp call returns), and every notification
\* handed to OnNewIp is eventually dequeued and then discarded as a duplicate
\* or taken through the whole action loop.
C17_Progress ==
  /\ \A p \in Producers : (prod[p] = "blocked") ~> (prod[p] = "idle")
  /\ \A n \in 1..(MaxSubmits + BurstSubmits) : []<>(nEnq >= n => Processed(n))

\* the channel was full with two producers parked behind it, and all thirteen
\* notifications have been processed since
C17_Witness ==
  /\ nEnq = BurstSubmits /\ BurstSubmits > QueueCap + 2
  /\ Processed(BurstSubmits)
  /\ queue = <<>> /\ sendq = <<>>
  /\ \A p \in Producers : prod[p] = "idle"

====
